---- MODULE Spec2Model ----
(***************************************************************************)
(* Model of sgpt/role.py: the SystemRole class (role files in the storage  *)
(* directory, the class-wide message_to_role registry) and its operations  *)
(* create_defaults, create, get, delete, get_role_name and the             *)
(* constructor.                                                            *)
(*                                                                         *)
(* Text is a sequence of one-character strings, so that slicing, split,    *)
(* strip and str.format are computed character by character as Python      *)
(* computes them.  The backquote character cannot be written in a TLA+     *)
(* string; it is the sequence element BACKTICK.                            *)
(***************************************************************************)
EXTENDS Integers, Sequences, FiniteSets, TLC

VARIABLES store, registry, saved, last, pc

vars == <<store, registry, saved, last, pc>>

BACKTICK == "BACKTICK"

(***************************************************************************)
(* The four role templates, role.py lines 16-41.                           *)
(***************************************************************************)
SHELL_ROLE ==
    <<"P","r","o","v","i","d","e"," ","o","n","l","y"," ","{","s","h","e",
      "l","l","}"," ","c","o","m","m","a","n","d","s"," ","f","o","r"," ",
      "{","o","s","}"," ","w","i","t","h","o","u","t"," ","a","n","y"," ",
      "d","e","s","c","r","i","p","t","i","o","n",".","\n","I","f"," ","t",
      "h","e","r","e"," ","i","s"," ","a"," ","l","a","c","k"," ","o","f",
      " ","d","e","t","a","i","l","s",","," ","p","r","o","v","i","d","e",
      " ","m","o","s","t"," ","l","o","g","i","c","a","l"," ","s","o","l",
      "u","t","i","o","n",".","\n","E","n","s","u","r","e"," ","t","h","e",
      " ","o","u","t","p","u","t"," ","i","s"," ","a"," ","v","a","l","i",
      "d"," ","s","h","e","l","l"," ","c","o","m","m","a","n","d",".","\n",
      "I","f"," ","m","u","l","t","i","p","l","e"," ","s","t","e","p","s",
      " ","r","e","q","u","i","r","e","d"," ","t","r","y"," ","t","o"," ",
      "c","o","m","b","i","n","e"," ","t","h","e","m"," ","t","o","g","e",
      "t","h","e","r"," ","u","s","i","n","g"," ","&","&",".","\n","P","r",
      "o","v","i","d","e"," ","o","n","l","y"," ","p","l","a","i","n"," ",
      "t","e","x","t"," ","w","i","t","h","o","u","t"," ","M","a","r","k",
      "d","o","w","n"," ","f","o","r","m","a","t","t","i","n","g",".","\n",
      "D","o"," ","n","o","t"," ","p","r","o","v","i","d","e"," ","m","a",
      "r","k","d","o","w","n"," ","f","o","r","m","a","t","t","i","n","g",
      " ","s","u","c","h"," ","a","s"," ",BACKTICK,BACKTICK,BACKTICK,".",
      "\n">>

DESCRIBE_SHELL_ROLE ==
    <<"P","r","o","v","i","d","e"," ","a"," ","t","e","r","s","e",","," ",
      "s","i","n","g","l","e"," ","s","e","n","t","e","n","c","e"," ","d",
      "e","s","c","r","i","p","t","i","o","n"," ","o","f"," ","t","h","e",
      " ","g","i","v","e","n"," ","s","h","e","l","l"," ","c","o","m","m",
      "a","n","d",".","\n","D","e","s","c","r","i","b","e"," ","e","a","c",
      "h"," ","a","r","g","u","m","e","n","t"," ","a","n","d"," ","o","p",
      "t","i","o","n"," ","o","f"," ","t","h","e"," ","c","o","m","m","a",
      "n","d",".","\n","P","r","o","v","i","d","e"," ","s","h","o","r","t",
      " ","r","e","s","p","o","n","s","e","s"," ","i","n"," ","a","b","o",
      "u","t"," ","8","0"," ","w","o","r","d","s",".","\n","A","P","P","L",
      "Y"," ","M","A","R","K","D","O","W","N"," ","f","o","r","m","a","t",
      "t","i","n","g"," ","w","h","e","n"," ","p","o","s","s","i","b","l",
      "e",".">>

CODE_ROLE ==
    <<"P","r","o","v","i","d","e"," ","o","n","l","y"," ","c","o","d","e",
      " ","a","s"," ","o","u","t","p","u","t"," ","w","i","t","h","o","u",
      "t"," ","a","n","y"," ","d","e","s","c","r","i","p","t","i","o","n",
      ".","\n","P","r","o","v","i","d","e"," ","o","n","l","y"," ","c","o",
      "d","e"," ","i","n"," ","p","l","a","i","n"," ","t","e","x","t"," ",
      "f","o","r","m","a","t"," ","w","i","t","h","o","u","t"," ","M","a",
      "r","k","d","o","w","n"," ","f","o","r","m","a","t","t","i","n","g",
      ".","\n","D","o"," ","n","o","t"," ","i","n","c","l","u","d","e"," ",
      "s","y","m","b","o","l","s"," ","s","u","c","h"," ","a","s"," ",
      BACKTICK,BACKTICK,BACKTICK," ","o","r"," ",BACKTICK,BACKTICK,BACKTICK,
      "p","y","t","h","o","n",".","\n","I","f"," ","t","h","e","r","e"," ",
      "i","s"," ","a"," ","l","a","c","k"," ","o","f"," ","d","e","t","a",
      "i","l","s",","," ","p","r","o","v","i","d","e"," ","m","o","s","t",
      " ","l","o","g","i","c","a","l"," ","s","o","l","u","t","i","o","n",
      ".","\n","Y","o","u"," ","a","r","e"," ","n","o","t"," ","a","l","l",
      "o","w","e","d"," ","t","o"," ","a","s","k"," ","f","o","r"," ","m",
      "o","r","e"," ","d","e","t","a","i","l","s",".","\n","F","o","r"," ",
      "e","x","a","m","p","l","e"," ","i","f"," ","t","h","e"," ","p","r",
      "o","m","p","t"," ","i","s"," ","\"","H","e","l","l","o"," ","w","o",
      "r","l","d"," ","P","y","t","h","o","n","\"",","," ","y","o","u"," ",
      "s","h","o","u","l","d"," ","r","e","t","u","r","n"," ","\"","p","r",
      "i","n","t","(","'","H","e","l","l","o"," ","w","o","r","l","d","'",
      ")","\"",".">>

DEFAULT_ROLE ==
    <<"Y","o","u"," ","a","r","e"," ","p","r","o","g","r","a","m","m","i",
      "n","g"," ","a","n","d"," ","s","y","s","t","e","m"," ","a","d","m",
      "i","n","i","s","t","r","a","t","i","o","n"," ","a","s","s","i","s",
      "t","a","n","t",".","\n","Y","o","u"," ","a","r","e"," ","m","a","n",
      "a","g","i","n","g"," ","{","o","s","}"," ","o","p","e","r","a","t",
      "i","n","g"," ","s","y","s","t","e","m"," ","w","i","t","h"," ","{",
      "s","h","e","l","l","}"," ","s","h","e","l","l",".","\n","P","r","o",
      "v","i","d","e"," ","s","h","o","r","t"," ","r","e","s","p","o","n",
      "s","e","s"," ","i","n"," ","a","b","o","u","t"," ","1","0","0"," ",
      "w","o","r","d","s",","," ","u","n","l","e","s","s"," ","y","o","u",
      " ","a","r","e"," ","s","p","e","c","i","f","i","c","a","l","l","y",
      " ","a","s","k","e","d"," ","f","o","r"," ","m","o","r","e"," ","d",
      "e","t","a","i","l","s",".","\n","I","f"," ","y","o","u"," ","n","e",
      "e","d"," ","t","o"," ","s","t","o","r","e"," ","a","n","y"," ","d",
      "a","t","a",","," ","a","s","s","u","m","e"," ","i","t"," ","w","i",
      "l","l"," ","b","e"," ","s","t","o","r","e","d"," ","i","n"," ","t",
      "h","e"," ","c","o","n","v","e","r","s","a","t","i","o","n",".","\n",
      "A","P","P","L","Y"," ","M","A","R","K","D","O","W","N"," ","f","o",
      "r","m","a","t","t","i","n","g"," ","w","h","e","n"," ","p","o","s",
      "s","i","b","l","e",".">>
(***************************************************************************)
(* Literals of the source.                                                 *)
(***************************************************************************)
YouAre == <<"Y","o","u"," ","a","r","e">>

YouAreSp == <<"Y","o","u"," ","a","r","e"," ">>

KeyShell == <<"s","h","e","l","l">>

KeyOs == <<"o","s">>

KeyPhrase == <<"p","h","r","a","s","e">>

KeyName == <<"n","a","m","e">>

NameShellGPT == <<"S","h","e","l","l","G","P","T">>

NameShellGen ==
    <<"S","h","e","l","l"," ","C","o","m","m","a","n","d"," ",
      "G","e","n","e","r","a","t","o","r">>

NameShellDesc ==
    <<"S","h","e","l","l"," ","C","o","m","m","a","n","d"," ",
      "D","e","s","c","r","i","p","t","o","r">>

NameCodeGen == <<"C","o","d","e"," ","G","e","n","e","r","a","t","o","r">>

DefaultNames == {NameShellGPT, NameShellGen, NameShellDesc, NameCodeGen}

\* message_lines[0][8:27]
WindowStart == 8

WindowEnd == 27

\* self.role[:20]
KeyLen == 20

(***************************************************************************)
(* Python values.                                                          *)
(***************************************************************************)
None == [kind |-> "None"]

PyStr(s) == [kind |-> "str", s |-> s]

PyDict(d) == [kind |-> "dict", d |-> d]

EmptyDict == [k \in {} |-> <<>>]

\* bool(v) for None, a str and a dict
Truthy(v) ==
    CASE v.kind = "None" -> FALSE
      [] v.kind = "str"  -> Len(v.s) > 0
      [] v.kind = "dict" -> DOMAIN v.d # {}

Min(a, b) == IF a < b THEN a ELSE b

\* s[a:b] for 0 <= a <= b
Slice(s, a, b) == SubSeq(s, a + 1, Min(b, Len(s)))

\* s[a:]
SliceFrom(s, a) == SubSeq(s, a + 1, Len(s))

\* sub in s
Contains(s, sub) ==
    \E i \in 1..(Len(s) - Len(sub) + 1) : SubSeq(s, i, i + Len(sub) - 1) = sub

\* s.find(sub): the 0-based offset of the first occurrence, -1 when absent
Find(s, sub) ==
    IF Contains(s, sub)
    THEN (CHOOSE i \in 1..(Len(s) - Len(sub) + 1) :
            /\ SubSeq(s, i, i + Len(sub) - 1) = sub
            /\ \A j \in 1..(i - 1) : SubSeq(s, j, j + Len(sub) - 1) # sub) - 1
    ELSE -1

\* Characters that have no escape in a TLA+ string and are written as they
\* are: U+000B line tabulation, U+001C to U+001F the file, group, record and
\* unit separators, U+0085 next line, U+00A0 no-break space, U+1680 ogham
\* space mark.
VT == ""

FS == ""

GS == ""

RS == ""

US == ""

NEL == ""

NBSP == " "

OghamSpace == " "

\* the line boundaries of str.splitlines; U+2028 and U+2029 are boundaries
\* too and cannot be written in a TLA+ string
LineBreaks == {"\n", "\r", "\f", VT, FS, GS, RS, NEL}

\* the whitespace of str.strip; the spaces from U+2000 on (U+2000 to
\* U+200A, U+2028, U+2029, U+202F, U+205F, U+3000) are whitespace too and
\* cannot be written in a TLA+ string
Whitespace ==
    {" ", "\t", "\n", "\r", "\f", VT, FS, GS, RS, US, NEL, NBSP, OghamSpace}

\* the 1-based position of the first character of s that is in set, 0 when
\* there is none
FirstOf(s, set) ==
    IF \E i \in 1..Len(s) : s[i] \in set
    THEN CHOOSE i \in 1..Len(s) :
             s[i] \in set /\ \A j \in 1..(i - 1) : s[j] \notin set
    ELSE 0

\* initial_message.splitlines()[0] of a non-empty message
FirstLine(s) ==
    IF FirstOf(s, LineBreaks) = 0
    THEN s
    ELSE SubSeq(s, 1, FirstOf(s, LineBreaks) - 1)

\* s.split(sep): the list of the pieces between the occurrences of sep
RECURSIVE split(_, _)
split(s, sep) ==
    LET i == Find(s, sep)
    IN  IF i < 0
        THEN <<s>>
        ELSE <<Slice(s, 0, i)>> \o split(SliceFrom(s, i + Len(sep)), sep)

RECURSIVE lstrip(_)
lstrip(s) ==
    IF s # <<>> /\ Head(s) \in Whitespace THEN lstrip(Tail(s)) ELSE s

RECURSIVE rstrip(_)
rstrip(s) ==
    IF s # <<>> /\ s[Len(s)] \in Whitespace
    THEN rstrip(SubSeq(s, 1, Len(s) - 1))
    ELSE s

\* s.strip()
strip(s) == rstrip(lstrip(s))

(***************************************************************************)
(* str.format with the variables as keywords, role.py line 77.  The text   *)
(* is scanned left to right: a doubled brace is a literal brace, {field}   *)
(* is replaced by variables[field], and the first malformed or unknown     *)
(* field raises.  There are no positional arguments, so a numbered or an   *)
(* empty field raises IndexError, and ValueError when the number does not  *)
(* fit the index type.                                                     *)
(* A field is parsed whole (its name, a conversion, a format              *)
(* specification) before its variable is looked up.  What a conversion     *)
(* (!r), a format specification (:x), an index lookup (a[0]) and an        *)
(* attribute lookup (a.b) do to a variable that is there is not modelled:  *)
(* the outcome of such a field is "Unmodelled".                            *)
(***************************************************************************)
\* the characters str.format reads as the decimal digits 0 to 9, in this
\* order; further decimal digits of Unicode cannot be written in a TLA+
\* string
DecimalDigits ==
    << {"0", "۰", "߀", "০", "૦", "௦", "೦", "෦", "໐", "႐", "០", "᧐", "᪀", "᪐", "᮰", "꣐", "꧐", "꧰", "꯰"},
       {"1", "۱", "߁", "১", "૧", "௧", "೧", "෧", "໑", "႑", "១", "᧑", "᪁", "᪑", "᮱", "꣑", "꧑", "꧱", "꯱"},
       {"2", "۲", "߂", "২", "૨", "௨", "೨", "෨", "໒", "႒", "២", "᧒", "᪂", "᪒", "᮲", "꣒", "꧒", "꧲", "꯲"},
       {"3", "۳", "߃", "৩", "૩", "௩", "೩", "෩", "໓", "႓", "៣", "᧓", "᪃", "᪓", "᮳", "꣓", "꧓", "꧳", "꯳"},
       {"4", "۴", "߄", "৪", "૪", "௪", "೪", "෪", "໔", "႔", "៤", "᧔", "᪄", "᪔", "᮴", "꣔", "꧔", "꧴", "꯴"},
       {"5", "۵", "߅", "৫", "૫", "௫", "೫", "෫", "໕", "႕", "៥", "᧕", "᪅", "᪕", "᮵", "꣕", "꧕", "꧵", "꯵"},
       {"6", "۶", "߆", "৬", "૬", "௬", "೬", "෬", "໖", "႖", "៦", "᧖", "᪆", "᪖", "᮶", "꣖", "꧖", "꧶", "꯶"},
       {"7", "۷", "߇", "৭", "૭", "௭", "೭", "෭", "໗", "႗", "៧", "᧗", "᪇", "᪗", "᮷", "꣗", "꧗", "꧷", "꯷"},
       {"8", "۸", "߈", "৮", "૮", "௮", "೮", "෮", "໘", "႘", "៨", "᧘", "᪈", "᪘", "᮸", "꣘", "꧘", "꧸", "꯸"},
       {"9", "۹", "߉", "৯", "૯", "௯", "೯", "෯", "໙", "႙", "៩", "᧙", "᪉", "᪙", "᮹", "꣙", "꧙", "꧹", "꯹"} >>

Digits == UNION {DecimalDigits[v] : v \in 1..Len(DecimalDigits)}

DigitValue(c) == (CHOOSE v \in 1..Len(DecimalDigits) : c \in DecimalDigits[v]) - 1

\* the digits of sys.maxsize, 2^63 - 1: the largest index a field may name
SsizeMaxDigits == <<9,2,2,3,3,7,2,0,3,6,8,5,4,7,7,5,8,0,7>>

\* the digits a text starts with
LeadingDigits(s) ==
    SubSeq(s, 1, CHOOSE k \in 0..Len(s) :
                     /\ \A i \in 1..k : s[i] \in Digits
                     /\ k = Len(s) \/ s[k + 1] \notin Digits)

\* sig, a run of digits that does not start with a zero, is a number above
\* sys.maxsize
AboveSsizeMax(sig) ==
    \/ Len(sig) > Len(SsizeMaxDigits)
    \/ /\ Len(sig) = Len(SsizeMaxDigits)
       /\ \E i \in 1..Len(sig) :
            /\ DigitValue(sig[i]) > SsizeMaxDigits[i]
            /\ \A j \in 1..(i - 1) : DigitValue(sig[j]) = SsizeMaxDigits[j]

\* a run of digits without the zeros it starts with
Significant(field, nonzero) ==
    IF nonzero = 0 THEN <<>> ELSE SubSeq(field, nonzero, Len(field))

\* a run of digits whose number is above sys.maxsize
TooManyDigits(field) ==
    AboveSsizeMax(Significant(field, FirstOf(field, Digits \ DecimalDigits[1])))

Raised(e) == [status |-> e, s |-> <<>>]

Returned(s) == [status |-> "ok", s |-> s]

\* the outcome r of formatting the rest of the text, with head put in front
Emit(head, r) == IF r.status = "ok" THEN Returned(head \o r.s) ELSE r

\* the position in r, at or after i, of the character that ends a field
\* name: the first of { } : and !, where the characters from a [ up to the
\* next ] are passed over; 0 when the text ends first
RECURSIVE NameStop(_, _)
\* closing: how far after the [ at position at the next ] is, 0 for none
PassBracket(r, at, closing) ==
    IF closing = 0 THEN 0 ELSE NameStop(r, at + closing)

\* at: the position of the first of { } : ! and [ at or after i
NameStopAt(r, at) ==
    IF r[at] # "[" THEN at
    ELSE PassBracket(r, at, FirstOf(SubSeq(r, at + 1, Len(r)), {"]"}))

\* hit: how far from i the first of { } : ! and [ is, 0 for none
NameStopHit(r, i, hit) == IF hit = 0 THEN 0 ELSE NameStopAt(r, i + hit - 1)

NameStop(r, i) ==
    NameStopHit(r, i, FirstOf(SubSeq(r, i, Len(r)), {"{", "}", ":", "!", "["}))

\* the least number of a non-empty set, 0 for the empty set
Least(S) == IF S = {} THEN 0 ELSE CHOOSE k \in S : \A m \in S : k <= m

\* the position in r of the brace that closes a format specification
\* starting at position from, nested braces counted; 0 when there is none
SpecStop(r, from) ==
    Least({k \in from..Len(r) :
              1 + Cardinality({j \in from..k : r[j] = "{"})
                = Cardinality({j \in from..k : r[j] = "}"})})

\* a parsed field: its name, which ends before position e of r, the
\* position of its closing brace (0 when the field is malformed) and
\* whether the field is nothing but its name
Field(r, e, close, bare) ==
    [name |-> SubSeq(r, 1, e - 1), close |-> close, bare |-> bare]

\* the field that r starts with, its name ending at position e
ParseFieldAt(r, e) ==
    IF e = 0 THEN Field(r, 1, 0, FALSE)
    ELSE IF r[e] = "{" THEN Field(r, 1, 0, FALSE)
    ELSE IF r[e] = "}" THEN Field(r, e, e, TRUE)
    ELSE IF r[e] = ":" THEN Field(r, e, SpecStop(r, e + 1), FALSE)
    ELSE IF e = Len(r) THEN Field(r, 1, 0, FALSE)
    ELSE IF e + 1 = Len(r) THEN Field(r, e, SpecStop(r, e + 2), FALSE)
    ELSE IF r[e + 2] = "}" THEN Field(r, e, e + 2, FALSE)
    ELSE IF r[e + 2] # ":" THEN Field(r, 1, 0, FALSE)
    ELSE Field(r, e, SpecStop(r, e + 3), FALSE)

\* the field that r, the text after an opening brace, starts with
ParseField(r) == ParseFieldAt(r, NameStop(r, 1))

\* the first part of a field name, up to the first dot or bracket, which is
\* part places into the name; 0 for none
FirstPart(name, part) == IF part = 0 THEN name ELSE SubSeq(name, 1, part - 1)

\* the variable first is looked up; the digits it starts with are read as
\* a number before it is taken for a name.  bare: the field is nothing but
\* this name; rest: the text after the field
LookUp(d, first, bare, rest) ==
    IF first = <<>>
        THEN [status |-> "IndexError", s |-> <<>>, rest |-> <<>>]
    ELSE IF TooManyDigits(LeadingDigits(first))
        THEN [status |-> "ValueError", s |-> <<>>, rest |-> <<>>]
    ELSE IF LeadingDigits(first) = first
        THEN [status |-> "IndexError", s |-> <<>>, rest |-> <<>>]
    ELSE IF first \notin DOMAIN d
        THEN [status |-> "KeyError", s |-> <<>>, rest |-> <<>>]
    ELSE IF ~ bare
        THEN [status |-> "Unmodelled", s |-> <<>>, rest |-> <<>>]
    ELSE [status |-> "ok", s |-> d[first], rest |-> rest]

\* the replacement of a parsed field of the text s
FormatField(s, d, field) ==
    IF field.close = 0
    THEN [status |-> "ValueError", s |-> <<>>, rest |-> <<>>]
    ELSE LookUp(d, FirstPart(field.name, FirstOf(field.name, {".", "["})),
                field.bare /\ FirstOf(field.name, {".", "["}) = 0,
                SliceFrom(s, field.close + 1))

\* the text from its first brace on
FormatBrace(s, d) ==
    IF Head(s) = "{" THEN
        IF Len(s) >= 2 /\ s[2] = "{"
        THEN [status |-> "ok", s |-> <<"{">>, rest |-> SliceFrom(s, 2)]
        ELSE FormatField(s, d, ParseField(SliceFrom(s, 1)))
    ELSE
        IF Len(s) >= 2 /\ s[2] = "}"
        THEN [status |-> "ok", s |-> <<"}">>, rest |-> SliceFrom(s, 2)]
        ELSE [status |-> "ValueError", s |-> <<>>, rest |-> <<>>]

RECURSIVE format(_, _)
format(s, d) ==
    LET b == FirstOf(s, {"{", "}"})
        f == FormatBrace(SliceFrom(s, b - 1), d)
    IN  IF b = 0 THEN Returned(s)
        ELSE IF f.status # "ok" THEN Raised(f.status)
        ELSE Emit(SubSeq(s, 1, b - 1) \o f.s, format(f.rest, d))

(***************************************************************************)
(* SystemRole.__init__, role.py lines 67-79.  The instance is its __dict__:*)
(* name, role, message_to_role.                                            *)
(***************************************************************************)
__init__(name, role, message_to_role, variables) ==
    LET r == IF Truthy(variables) THEN format(role, variables.d)
                                  ELSE Returned(role)
    IN  IF r.status = "ok"
        THEN [status |-> "ok",
              obj |-> [name |-> name, role |-> r.s,
                       message_to_role |-> message_to_role]]
        ELSE [status |-> r.status, obj |-> None]

\* role_template, role.py lines 44-48; message_to_role is a str here
role_template(name, role, message_to_role) ==
    IF Len(message_to_role) > 0
    THEN role
    ELSE YouAreSp \o name \o <<"\n">> \o role

(***************************************************************************)
(* The storage directory is a function from role names to the JSON object  *)
(* held by <name>.json.  json.dumps(self.__dict__) followed by json.loads  *)
(* gives back the same three fields for the str, None and dict-of-str      *)
(* values that occur.                                                      *)
(***************************************************************************)
Put(f, k, v) == [x \in DOMAIN f \cup {k} |-> IF x = k THEN v ELSE f[x]]

Remove(f, k) == [x \in DOMAIN f \ {k} |-> f[x]]

\* SystemRole._exists, role.py lines 170-176
_exists(st, name) == name \in DOMAIN st

\* a confirmation whose reply is not looked at
confirm_ignoring_reply(answer) == "ok"

\* typer.confirm(..., abort=True): a declined confirmation raises Abort
confirm(answer) == IF answer THEN "ok" ELSE "Abort"

\* SystemRole._save, role.py lines 178-193
_save(st, obj, answer) ==
    LET asked == _exists(st, obj.name)
        c == IF asked THEN confirm(answer) ELSE "ok"
        message_to_role == Slice(obj.role, 0, KeyLen)
        role == role_template(obj.name, obj.role, message_to_role)
        file == [name |-> obj.name, role |-> role,
                 message_to_role |-> obj.message_to_role]
    IN  IF c = "Abort"
        THEN [status |-> "Abort", store |-> st, writes |-> {},
              prompts |-> 1]
        ELSE [status |-> "ok", store |-> Put(st, obj.name, file),
              writes |-> {obj.name}, prompts |-> IF asked THEN 1 ELSE 0]

\* a get that renders the stored text once more on the way in
get_rendering_again(st, name) ==
    IF ~ (name \in DOMAIN st)
    THEN [status |-> "BadArgumentUsage", obj |-> None]
    ELSE __init__(st[name].name,
                  role_template(st[name].name, st[name].role, <<>>),
                  st[name].message_to_role, None)

\* SystemRole.get, role.py lines 104-109: the fields of the file are the
\* keyword arguments of the constructor
get(st, name) ==
    IF ~ (name \in DOMAIN st)
    THEN [status |-> "BadArgumentUsage", obj |-> None]
    ELSE __init__(st[name].name, st[name].role, st[name].message_to_role,
                  None)

\* SystemRole.delete, role.py lines 195-201
delete(st, name, answer) ==
    LET asked == _exists(st, name)
        c == IF asked THEN confirm(answer) ELSE "ok"
    IN  IF c = "Abort"
            THEN [status |-> "Abort", store |-> st, prompts |-> 1]
        ELSE IF ~ (name \in DOMAIN st)
            THEN [status |-> "FileNotFoundError", store |-> st, prompts |-> 0]
        ELSE [status |-> "ok", store |-> Remove(st, name), prompts |-> 1]

\* SystemRole.get_role_name, role.py lines 134-149
get_role_name(reg, initial_message) ==
    IF initial_message = <<>>
    THEN [status |-> "ok", value |-> None]
    ELSE LET line == FirstLine(initial_message)
             first_twenty_lines == Slice(line, WindowStart, WindowEnd)
             parts == split(line, YouAreSp)
         IN  IF Contains(line, YouAre)
                 THEN IF Len(parts) < 2
                      THEN [status |-> "IndexError", value |-> None]
                      ELSE [status |-> "ok", value |-> PyStr(strip(parts[2]))]
             ELSE IF /\ first_twenty_lines \in DOMAIN reg
                     /\ Len(reg[first_twenty_lines]) > 0
                 THEN [status |-> "ok", value |-> PyStr(reg[first_twenty_lines])]
             ELSE [status |-> "ok", value |-> None]

(***************************************************************************)
(* SystemRole.create_defaults, role.py lines 81-102.                       *)
(***************************************************************************)
\* a seeding that saves without looking whether the file exists; the user
\* confirms the overwrite
seed_default_unguarded(acc, default_role) ==
    LET w == _save(acc.store, default_role, TRUE)
    IN  [store |-> w.store, writes |-> acc.writes \cup w.writes,
         prompts |-> acc.prompts + w.prompts]

\* lines 91-92: a default role is saved only when its file does not exist
\* (_save then asks nothing, so the reply handed to it is never read)
seed_default(acc, default_role) ==
    IF ~ _exists(acc.store, default_role.name)
    THEN LET w == _save(acc.store, default_role, FALSE)
         IN  [store |-> w.store, writes |-> acc.writes \cup w.writes,
              prompts |-> acc.prompts + w.prompts]
    ELSE acc

\* lines 97-102: one file of the scan
scan_file(reg, role) ==
    LET message_to_role == role.message_to_role
    IN  IF ~ Truthy(message_to_role)
            THEN [status |-> "ok", registry |-> reg]
        ELSE IF message_to_role.kind # "dict"
            THEN [status |-> "TypeError", registry |-> reg]
        ELSE IF ~ ({KeyPhrase, KeyName} \subseteq DOMAIN message_to_role.d)
            THEN [status |-> "KeyError", registry |-> reg]
        ELSE [status |-> "ok",
              registry |-> Put(reg, message_to_role.d[KeyPhrase],
                               message_to_role.d[KeyName])]

\* lines 94-102: storage.iterdir() yields the files in an arbitrary order;
\* the set of the outcomes of the scan over the files still to come
RECURSIVE scan(_, _, _)
scan(reg, st, files) ==
    IF files = {}
    THEN {[status |-> "ok", registry |-> reg]}
    ELSE UNION {LET r == scan_file(reg, st[file])
                IN  IF r.status = "ok"
                    THEN scan(r.registry, st, files \ {file})
                    ELSE {r}
                : file \in files}

\* the set of the outcomes of create_defaults.  Lines 86-88 pass the
\* variables as the third positional argument, which is message_to_role;
\* the parameter variables keeps its default, None.
create_defaults(st, reg, shell, os) ==
    LET variables == PyDict((KeyShell :> shell) @@ (KeyOs :> os))
        made == <<__init__(NameShellGPT, DEFAULT_ROLE, variables, None),
                  __init__(NameShellGen, SHELL_ROLE, variables, None),
                  __init__(NameShellDesc, DESCRIBE_SHELL_ROLE, variables, None),
                  __init__(NameCodeGen, CODE_ROLE, None, None)>>
        failed == {i \in 1..4 : made[i].status # "ok"}
        acc0 == [store |-> st, writes |-> {}, prompts |-> 0]
        seeded == seed_default(seed_default(seed_default(seed_default(
                      acc0, made[1].obj), made[2].obj), made[3].obj),
                      made[4].obj)
    IN  IF failed # {}
        THEN {[status |-> made[CHOOSE i \in failed :
                                 \A j \in failed : i <= j].status,
               store |-> st, registry |-> reg, writes |-> {}, prompts |-> 0]}
        ELSE {[status |-> r.status, store |-> seeded.store,
               registry |-> r.registry, writes |-> seeded.writes,
               prompts |-> seeded.prompts]
              : r \in scan(reg, seeded.store, DOMAIN seeded.store)}

\* the template a default role is constructed from, lines 86-89
DefaultTemplate(name) ==
    CASE name = NameShellGPT  -> DEFAULT_ROLE
      [] name = NameShellGen  -> SHELL_ROLE
      [] name = NameShellDesc -> DESCRIBE_SHELL_ROLE
      [] name = NameCodeGen   -> CODE_ROLE

(***************************************************************************)
(* Inputs.                                                                 *)
(***************************************************************************)
MaxUserRoles == 1

UserNameList == << <<"n">>, <<"m">>, <<"k">> >>

UserNames == {UserNameList[i] : i \in 1..Min(MaxUserRoles, Len(UserNameList))}

\* the names create, get and delete are called with
OpNames == UserNames \cup {NameShellGPT}

DescX == <<"X">>

DescRun == <<"R","u","n"," ","{","s","h","e","l","l","}">>

DescOld == <<"O","l","d">>

\* what the user types at the "Enter role description" prompt
Descriptions == {DescX, DescRun}

Shells == {<<"b","a","s","h">>}

OsNames == {<<"L","i","n","u","x","/","U","b","u","n","t","u">>}

SystemColon == <<"s","y","s","t","e","m",":"," ">>

NameJp == <<"j","p","-","t","o","-","e","n">>

PhraseJp == <<"T","r","a","n","s","l","a","t","e">>

\* a role file written by hand in the layout of the docstring, lines 53-64
FileJp ==
    [name |-> NameJp,
     role |-> PhraseJp \o <<"\n","J","a","p","a","n","e","s","e">>,
     message_to_role |-> PyDict((KeyPhrase :> PhraseJp) @@ (KeyName :> NameJp))]

\* the file create(name) writes into an empty directory for a description
CreatedFile(name, description) ==
    _save(EmptyDict, __init__(name, description, None, None).obj, TRUE)
        .store[name]

\* a directory left by earlier runs in which the three default roles that
\* lines 86-88 construct with a variable set already have a file, each as
\* create writes it
StoreDefaultsOlder ==
    (NameShellGPT :> CreatedFile(NameShellGPT, DescOld))
    @@ (NameShellGen :> CreatedFile(NameShellGen, DescOld))
    @@ (NameShellDesc :> CreatedFile(NameShellDesc, DescOld))

\* the same directory with the hand-written role added
StoreOlder == (NameJp :> FileJp) @@ StoreDefaultsOlder

SavedOlder ==
    (NameShellGPT :> [by |-> "create", raw |-> DescOld])
    @@ (NameShellGen :> [by |-> "create", raw |-> DescOld])
    @@ (NameShellDesc :> [by |-> "create", raw |-> DescOld])

Messages ==
    { <<>>,
      YouAreSp \o NameShellGPT \o <<"\n","h","i">>,
      YouAreSp \o <<"A"," ">> \o YouAreSp \o <<"B">>,
      YouAre,
      <<"h","i">>,
      SystemColon \o DescX,
      SystemColon \o FileJp.role,
      SystemColon \o CODE_ROLE,
      DEFAULT_ROLE,
      SystemColon \o <<" ">> \o YouAreSp \o <<" ","n"," ","\t","\n","X">>,
      YouAreSp \o <<"n", VT, "X">>,
      YouAreSp \o <<NBSP, "n", US, NEL, "X">> }

VariableSets ==
    { None,
      PyDict(EmptyDict),
      PyDict(KeyShell :> <<"z","s","h">>),
      PyDict((KeyShell :> <<"z","s","h">>) @@ (KeyOs :> <<"B","S","D">>)) }

ConstructRoles ==
    { <<>>, DescX, DescRun,
      <<"{","o","s","}","{","{","}","}">>,
      <<"{","s","h","e","l","l","}"," ","{","o","s","}">>,
      <<"a","}">>,
      <<"{","}">>,
      <<"{","9","2","2","3","3","7","2","0","3","6","8","5","4","7","7","5",
        "8","0","7","}">>,
      <<"{","9","2","2","3","3","7","2","0","3","6","8","5","4","7","7","5",
        "8","0","8","}">>,
      <<"{","n","o","!","r","}">>,
      <<"{","o","s",":","{","}">> }

(***************************************************************************)
(* State.  store: the role files.  registry: the class attribute           *)
(* message_to_role.  saved: for every file written by _save and still      *)
(* there, the caller of _save (by) and, for a role made by create, the     *)
(* description the user typed (raw).  last: the last call, its inputs and  *)
(* outcome; answer is the reply to the confirmation prompt, TRUE when      *)
(* the call did not prompt.  pc: where the running process is: "import"    *)
(* before line 229 has run, "ready" once line 229 has returned and the     *)
(* class can be used, "failed" when line 229 raised and the import of the  *)
(* module with it.                                                         *)
(***************************************************************************)
NoCall ==
    [op |-> "none", name |-> <<>>, msg |-> <<>>, variables |-> None,
     answer |-> TRUE, status |-> "ok", value |-> None, writes |-> {},
     prompts |-> 0]

\* a process that is about to import the module; the directory is empty or
\* holds files left by earlier runs
Init ==
    /\ store \in {EmptyDict, NameJp :> FileJp, StoreDefaultsOlder, StoreOlder}
    /\ registry = EmptyDict
    /\ saved = IF DOMAIN StoreDefaultsOlder \subseteq DOMAIN store
               THEN SavedOlder ELSE EmptyDict
    /\ last = NoCall
    /\ pc = "import"

\* line 229: the import of the module calls SystemRole.create_defaults(),
\* the first operation of every process, on the class attribute as line 50
\* leaves it.  The process that was running, if any, has ended.
CreateDefaults ==
    \E shell \in Shells, os \in OsNames :
      \E out \in create_defaults(store, EmptyDict, shell, os) :
        /\ store' = out.store
        /\ registry' = IF out.status = "ok" THEN out.registry ELSE EmptyDict
        /\ pc' = IF out.status = "ok" THEN "ready" ELSE "failed"
        /\ saved' = [n \in DOMAIN saved \cup out.writes |->
                       IF n \in out.writes
                       THEN [by |-> "create_defaults", raw |-> <<>>]
                       ELSE saved[n]]
        /\ last' = [NoCall EXCEPT !.op = "create_defaults",
                                  !.variables =
                                      PyDict((KeyShell :> shell) @@ (KeyOs :> os)),
                                  !.status = out.status,
                                  !.writes = out.writes,
                                  !.prompts = out.prompts]

\* SystemRole.create, lines 111-116
Create ==
    \E name \in OpNames, description \in Descriptions, answer \in BOOLEAN :
      LET made == __init__(name, description, None, None)
          w == _save(store, made.obj, answer)
      IN  /\ pc = "ready"
          /\ made.status = "ok"
          /\ store' = w.store
          /\ saved' = IF w.status = "ok"
                      THEN Put(saved, name,
                               [by |-> "create", raw |-> description])
                      ELSE saved
          /\ last' = [NoCall EXCEPT !.op = "create", !.name = name,
                                    !.answer = (w.prompts = 0) \/ answer,
                                    !.status = w.status,
                                    !.writes = w.writes,
                                    !.prompts = w.prompts]
          /\ UNCHANGED <<registry, pc>>

\* SystemRole.get(name), lines 104-109
Get ==
    \E name \in OpNames \cup {NameJp, NameCodeGen} :
      LET r == get(store, name)
      IN  /\ pc = "ready"
          /\ last' = [NoCall EXCEPT !.op = "get", !.name = name,
                                    !.status = r.status, !.value = r.obj]
          /\ UNCHANGED <<store, registry, saved, pc>>

\* role.delete() of a role object named name, lines 195-201
Delete ==
    \E name \in OpNames, answer \in BOOLEAN :
      LET r == delete(store, name, answer)
      IN  /\ pc = "ready"
          /\ store' = r.store
          /\ saved' = IF r.status = "ok" /\ name \in DOMAIN saved
                      THEN Remove(saved, name) ELSE saved
          /\ last' = [NoCall EXCEPT !.op = "delete", !.name = name,
                                    !.answer = (r.prompts = 0) \/ answer,
                                    !.status = r.status,
                                    !.prompts = r.prompts]
          /\ UNCHANGED <<registry, pc>>

\* SystemRole.get_role_name(initial_message), lines 134-149
GetRoleName ==
    \E initial_message \in Messages :
      LET r == get_role_name(registry, initial_message)
      IN  /\ pc = "ready"
          /\ last' = [NoCall EXCEPT !.op = "get_role_name",
                                    !.msg = initial_message,
                                    !.status = r.status, !.value = r.value]
          /\ UNCHANGED <<store, registry, saved, pc>>

\* SystemRole(name, role, None, variables), lines 67-79
Construct ==
    \E name \in OpNames, role \in ConstructRoles,
       variables \in VariableSets :
      LET r == __init__(name, role, None, variables)
      IN  /\ pc = "ready"
          /\ last' = [NoCall EXCEPT !.op = "construct", !.name = name,
                                    !.msg = role, !.variables = variables,
                                    !.status = r.status, !.value = r.obj]
          /\ UNCHANGED <<store, registry, saved, pc>>

\* a process imports the module and, when the import returned, calls the
\* class
Next ==
    \/ CreateDefaults
    \/ Create
    \/ Get
    \/ Delete
    \/ GetRoleName

Spec == Init /\ [][Next]_vars

\* a process imports the module and constructs roles
NextConstruct ==
    \/ CreateDefaults
    \/ Construct

SpecConstruct == Init /\ [][NextConstruct]_vars

\* the description a saved role was constructed with
RawDescription(name) ==
    IF saved[name].by = "create" THEN saved[name].raw
                                 ELSE DefaultTemplate(name)

\* the identification key of a saved role: the first 20 characters of the
\* description it was constructed with
KeyOf(name) == Slice(RawDescription(name), 0, KeyLen)

\* the text after the first occurrence of "You are " in a line
AfterYouAre(line) == SliceFrom(line, Find(line, YouAreSp) + Len(YouAreSp))

\* the {placeholder} tokens of a text: the words between an opening and the
\* next closing brace
Placeholders(s) ==
    {SubSeq(s, i + 1, j - 1) : <<i, j>> \in
        {p \in (1..Len(s)) \X (1..Len(s)) :
            /\ p[1] + 1 < p[2]
            /\ s[p[1]] = "{"
            /\ s[p[2]] = "}"
            /\ \A k \in (p[1] + 1)..(p[2] - 1) : s[k] \notin {"{", "}"}}}

PlaceholderOs == <<"{","o","s","}">>

PlaceholderShell == <<"{","s","h","e","l","l","}">>

(***************************************************************************)
(* C1.  For every non-empty message whose first line contains "You are ",  *)
(* get_role_name returns the text of the first line after the first        *)
(* occurrence of "You are ", up to the end of the line, stripped, whatever *)
(* the registry holds.                                                     *)
(***************************************************************************)
C1_PrimaryIdentification ==
    ( /\ last.op = "get_role_name"
      /\ last.msg # <<>>
      /\ Contains(FirstLine(last.msg), YouAreSp) )
    => /\ last.status = "ok"
       /\ last.value = PyStr(strip(AfterYouAre(FirstLine(last.msg))))

(***************************************************************************)
(* C2.  Once create_defaults has built the registry, a message whose first *)
(* line has no "You are " and whose characters 8 to 27 equal the           *)
(* identification key of a saved role (the only saved role with that key)  *)
(* is resolved to the name of that role.                                   *)
(***************************************************************************)
C2_FallbackIdentification ==
    [][ ( /\ last.op = "create_defaults"
          /\ last.status = "ok"
          /\ last'.op = "get_role_name"
          /\ last'.msg # <<>>
          /\ ~ Contains(FirstLine(last'.msg), YouAreSp) )
        => \A n \in DOMAIN saved :
             ( /\ Slice(FirstLine(last'.msg), WindowStart, WindowEnd) = KeyOf(n)
               /\ \A m \in DOMAIN saved : KeyOf(m) = KeyOf(n) => m = n )
             => /\ last'.status = "ok"
                /\ last'.value = PyStr(n) ]_vars

(***************************************************************************)
(* C3.  get_role_name never raises: every call returns a role name or None.*)
(***************************************************************************)
C3_IdentificationNeverRaises ==
    last.op = "get_role_name" => last.status = "ok"

(***************************************************************************)
(* C4.  After a role has been saved, get(name) succeeds and returns the    *)
(* text _save wrote, the rendering of the description the role was         *)
(* constructed with, with no further rendering or substitution.            *)
(***************************************************************************)
C4_RoundTrip ==
    (last.op = "get" /\ last.name \in DOMAIN saved)
    => /\ last.status = "ok"
       /\ last.value.name = last.name
       /\ last.value.role = store[last.name].role
       /\ last.value.role = role_template(last.name, RawDescription(last.name),
                                          KeyOf(last.name))

\* a saved role whose text holds a placeholder-like token has been read back
C4_Witness ==
    /\ last.op = "get"
    /\ last.name \in DOMAIN saved
    /\ last.status = "ok"
    /\ Placeholders(last.value.role) # {}

(***************************************************************************)
(* C5.  A run of create_defaults that directly follows a run of            *)
(* create_defaults leaves every role file as it was, writes no file and    *)
(* asks for no confirmation.                                               *)
(***************************************************************************)
C5_IdempotentBootstrap ==
    [][ (last.op = "create_defaults" /\ last'.op = "create_defaults")
        => /\ store' = store
           /\ last'.writes = {}
           /\ last'.prompts = 0 ]_vars

\* a run of create_defaults that wrote nothing, after a run that wrote all
\* four default roles
C5_Witness ==
    /\ last.op = "create_defaults"
    /\ last.writes = {}
    /\ \A d \in DefaultNames :
         d \in DOMAIN saved /\ saved[d].by = "create_defaults"

(***************************************************************************)
(* C6.  A role made by create with a non-empty description d under the     *)
(* name n is persisted with the body "You are n\nd".                       *)
(***************************************************************************)
C6_PersonaRendering ==
    (last.op = "create" /\ last.status = "ok")
    => store[last.name].role =
           YouAreSp \o last.name \o <<"\n">> \o saved[last.name].raw

(***************************************************************************)
(* C7.  Constructing a role with a variable set, empty or not, and a       *)
(* description that holds a placeholder the set has no entry for raises    *)
(* KeyError; constructing it with no variable set leaves the description   *)
(* as it is.                                                               *)
(***************************************************************************)
C7_MissingVariable ==
    last.op = "construct"
    => /\ ( /\ last.variables # None
            /\ \E f \in Placeholders(last.msg) : f \notin DOMAIN last.variables.d )
          => last.status = "KeyError"
       /\ last.variables = None
          => (last.status = "ok" /\ last.value.role = last.msg)

(***************************************************************************)
(* C8.  A delete of an existing role and a save over an existing role      *)
(* whose confirmation is declined abort and leave the role files and the   *)
(* registry as they were; a save under a name that has no file asks for no *)
(* confirmation.                                                           *)
(***************************************************************************)
C8_CancellationLeavesState ==
    [][ /\ ( /\ last'.op \in {"delete", "create"}
             /\ last'.name \in DOMAIN store
             /\ last'.answer = FALSE )
           => /\ last'.status = "Abort"
              /\ store' = store
              /\ registry' = registry
        /\ (last'.op = "create" /\ last'.name \notin DOMAIN store)
           => (last'.prompts = 0 /\ last'.status = "ok") ]_vars

\* a declined delete of a saved role, with a registry that is not empty
C8_Witness ==
    /\ last.op = "delete"
    /\ last.status = "Abort"
    /\ last.name \in DOMAIN saved
    /\ registry # EmptyDict

(***************************************************************************)
(* C9.  After create_defaults has run on role files that were all written  *)
(* by _save, it has completed without error and the registry maps the      *)
(* identification key of every role file to the name of that role, or to   *)
(* the name of another role file with the same key.                        *)
(***************************************************************************)
C9_RegistryBuild ==
    (last.op = "create_defaults" /\ DOMAIN store \subseteq DOMAIN saved)
    => /\ last.status = "ok"
       /\ \A n \in DOMAIN store :
            KeyOf(n) # <<>>
            => /\ KeyOf(n) \in DOMAIN registry
               /\ registry[KeyOf(n)] \in
                      {m \in DOMAIN store : KeyOf(m) = KeyOf(n)}

(***************************************************************************)
(* C10.  After create_defaults has seeded an empty directory, no default   *)
(* role body holds a literal {os} or {shell}, and no role file holds the   *)
(* variable set.                                                           *)
(***************************************************************************)
C10_BootstrapSubstitution ==
    ( /\ last.op = "create_defaults"
      /\ last.writes = DefaultNames
      /\ DOMAIN store = DefaultNames )
    => \A n \in DefaultNames :
         /\ ~ Contains(store[n].role, PlaceholderOs)
         /\ ~ Contains(store[n].role, PlaceholderShell)
         /\ store[n].message_to_role # last.variables

====
